---- MODULE Spec2Model ----
(***************************************************************************)
(* Model of LmhpRemoteMcastSetup.c, the LoRa-Alliance remote multicast     *)
(* setup package of LoRaMac-node: the package state, the command dispatch  *)
(* loop of LmhpRemoteMcastSetupOnMcpsIndication and the two session timer  *)
(* callbacks.                                                              *)
(*                                                                         *)
(* 32-bit quantities are pairs <<hi, lo>> of 16-bit limbs, so that every   *)
(* operation keeps the width the C code has (uint32_t / int32_t).          *)
(* 8-bit indices are kept modulo 256.                                      *)
(***************************************************************************)
EXTENDS Integers, Sequences, FiniteSets, TLC

\* ------------------------------------------------------------ constants
REMOTE_MCAST_SETUP_PORT == 200
REMOTE_MCAST_SETUP_ID == 2
REMOTE_MCAST_SETUP_VERSION == 1

REMOTE_MCAST_SETUP_PKG_VERSION_ANS == 0
REMOTE_MCAST_SETUP_MC_GROUP_STATUS_ANS == 1
REMOTE_MCAST_SETUP_MC_GROUP_SETUP_ANS == 2
REMOTE_MCAST_SETUP_MC_GROUP_DELETE_ANS == 3
REMOTE_MCAST_SETUP_MC_GROUP_CLASS_C_SESSION_ANS == 4

REMOTE_MCAST_SETUP_PKG_VERSION_REQ == 0
REMOTE_MCAST_SETUP_MC_GROUP_STATUS_REQ == 1
REMOTE_MCAST_SETUP_MC_GROUP_SETUP_REQ == 2
REMOTE_MCAST_SETUP_MC_GROUP_DELETE_REQ == 3
REMOTE_MCAST_SETUP_MC_GROUP_CLASS_C_SESSION_REQ == 4
REMOTE_MCAST_SETUP_MC_GROUP_CLASS_B_SESSION_REQ == 5

\* Number of multicast contexts of the MAC layer (LoRaMac.h).
LORAMAC_MAX_MC_CTX == 4
\* Seconds between the Unix epoch and the GPS epoch (systime.h).
UNIX_GPS_EPOCH_OFFSET == 315964800

\* Width of cmdIndex, dataBufferIndex and BufferSize (uint8_t).
Uint8Range == 2 ^ 8
\* One 16-bit limb of a 32-bit quantity.
Limb == 2 ^ 16

Slots == 0 .. (LORAMAC_MAX_MC_CTX - 1)

\* ------------------------------------------------- 32-bit arithmetic
\* A uint32_t from a natural number below 2^31.
U32(n) == << n \div Limb, n % Limb >>

U32Zero == << 0, 0 >>

\* a + b modulo 2^32.
U32Add(a, b) ==
    LET lo == a[2] + b[2]
        hi == a[1] + b[1] + (lo \div Limb)
    IN  << hi % Limb, lo % Limb >>

\* a - b modulo 2^32.
U32Sub(a, b) ==
    LET lo == a[2] - b[2]
        borrow == IF lo < 0 THEN 1 ELSE 0
        hi == a[1] - b[1] - borrow
    IN  << (hi + Limb) % Limb, (lo + Limb) % Limb >>

\* x read as an int32_t is > 0.
Int32Positive(x) == x[1] < (Limb \div 2) /\ x # U32Zero

\* n * x modulo 2^32, for a small natural n.
U32Scale(n, x) ==
    LET lo == x[2] * n
        hi == x[1] * n + (lo \div Limb)
    IN  << hi % Limb, lo % Limb >>

\* ( b << 8*k ) & ( 0xFF << 8*k ) for a byte b: byte k of a 32-bit word.
ShiftMask(b, k) ==
    CASE k = 0 -> << 0, b % 256 >>
      [] k = 1 -> << 0, (b % 256) * 256 >>
      [] k = 2 -> << b % 256, 0 >>
      [] OTHER -> << (b % 256) * 256, 0 >>

\* ( x >> 8*k ) & 0xFF.
ByteOf(x, k) ==
    CASE k = 0 -> x[2] % 256
      [] k = 1 -> (x[2] \div 256) % 256
      [] k = 2 -> x[1] % 256
      [] OTHER -> (x[1] \div 256) % 256

\* byte | 0x10.
Or0x10(b) == IF (b \div 16) % 2 = 1 THEN b ELSE b + 16

\* byte | 0x04.
Or0x04(b) == IF (b \div 4) % 2 = 1 THEN b ELSE b + 4

\* Bit k of a byte.
Bit(b, k) == (b \div (2 ^ k)) % 2

\* ------------------------------------------------------------- state
VARIABLES
    LmhpRemoteMcastSetupState,  \* Initialized, IsRunning, DataBufferMaxSize, DataBuffer
    McSessionData,              \* the four group/session records of the package
    MulticastChannelList,       \* the MAC layer's multicast channel list
    SessionStartTimer,          \* [running, value (ms, uint32)]
    SessionStopTimer,
    requestedClass,             \* last class handed to LmHandlerRequestClass
    lastOp,                     \* the callback that just returned, or "idle"
    lastIn,                     \* the indication it was given
    trace,                      \* one entry per command the dispatch loop decoded
    sent,                       \* the OnSendRequest calls of the last indication
    overrun,                    \* the last indication wrote outside DataBuffer
    ret,                        \* value returned by the last query
    lastInit,                   \* what the most recent Init was given
    armedBy                     \* slot of the command that last armed the start
                                \* timer, LORAMAC_MAX_MC_CTX while there is none

pkgVars == << LmhpRemoteMcastSetupState, McSessionData, MulticastChannelList,
              SessionStartTimer, SessionStopTimer, requestedClass >>

vars == << LmhpRemoteMcastSetupState, McSessionData, MulticastChannelList,
           SessionStartTimer, SessionStopTimer, requestedClass,
           lastOp, lastIn, trace, sent, overrun, ret, lastInit, armedBy >>

ZeroKey == [i \in 1 .. 16 |-> 0]

McGroupDataZero ==
    [ IdHeader |-> 0, McAddr |-> U32Zero, McKeyEncrypted |-> ZeroKey,
      McFCountMin |-> U32Zero, McFCountMax |-> U32Zero ]

McSessionDataZero ==
    [ McGroupData |-> McGroupDataZero,
      SessionState |-> "SESSION_STOPED",
      SessionTime |-> U32Zero,
      SessionTimeout |-> 0,
      RxParams |-> [ Frequency |-> 0, Datarate |-> 0 ] ]

McChannelZero == [ GroupID |-> 0, Address |-> U32Zero, IsEnabled |-> FALSE ]

TimerZero == [ running |-> FALSE, value |-> U32Zero ]

NoInput == [ reqs |-> << >>, buf |-> << >>, cut |-> 0, pad |-> 0,
             mac |-> << >>, cur |-> U32Zero, ovf |-> "wrap" ]

Init ==
    /\ LmhpRemoteMcastSetupState =
          [ Initialized |-> FALSE, IsRunning |-> FALSE,
            DataBufferMaxSize |-> 0, DataBuffer |-> "NULL" ]
    /\ McSessionData = [s \in Slots |-> McSessionDataZero]
    /\ MulticastChannelList = [s \in Slots |-> McChannelZero]
    /\ SessionStartTimer = TimerZero
    /\ SessionStopTimer = TimerZero
    /\ requestedClass = "none"
    /\ lastOp = "idle"
    /\ lastIn = NoInput
    /\ trace = << >>
    /\ sent = << >>
    /\ overrun = FALSE
    /\ ret = FALSE
    /\ lastInit = "none"
    /\ armedBy = LORAMAC_MAX_MC_CTX

\* --------------------------------------------- external collaborators
\* Timer service (timer.h): a timer is stopped or pending with a value.
TimerInit(t) == TimerZero
TimerSetValue(t, v) == [t EXCEPT !.value = v]
TimerStart(t) == [t EXCEPT !.running = TRUE]
TimerStop(t) == [t EXCEPT !.running = FALSE]

\* MAC configuration interface (LoRaMac.h).  Whether a request succeeds is
\* the MAC layer's decision: `o` is the outcome it takes for this call.
LoRaMacMcChannelSetup(mc, channel, o) ==
    IF o.ok
    THEN [mc EXCEPT ![channel.GroupID] =
            [ GroupID |-> channel.GroupID, Address |-> channel.Address,
              IsEnabled |-> TRUE ]]
    ELSE mc

LoRaMacMcChannelDelete(mc, id, o) ==
    IF o.ok THEN [mc EXCEPT ![id] = McChannelZero] ELSE mc

\* The status byte the MAC layer writes through the status pointer.
LoRaMacMcChannelSetupRxParams(id, rxParams, o) == o.status

\* The outcome the MAC layer takes for its k-th call (k from 0) of an indication.
MacOutcome(in, k) == in.mac[(k % Len(in.mac)) + 1]

\* SysTimeGet( ).Seconds during the indication.
SysTimeGet(in) == in.cur

\* ------------------------------------------------- the dispatch loop
\* mcpsIndication->Buffer[i]; a read at or past BufferSize returns whatever
\* follows the buffer in memory (in.pad).
BufferAt(in, i) == IF i < Len(in.buf) THEN in.buf[i + 1] ELSE in.pad

\* The n bytes read by n successive Buffer[cmdIndex++], cmdIndex starting at ci.
ReadBytes(in, ci, n) == [j \in 1 .. n |-> BufferAt(in, (ci + j - 1) % Uint8Range)]

\* The statements  x = (b0 << 0) & 0xFF; x += (b1 << 8) & 0xFF00; ...
DecodeBE32(b0, b1, b2, b3) ==
    U32Add(U32Add(U32Add(ShiftMask(b3, 0), ShiftMask(b2, 1)), ShiftMask(b1, 2)),
           ShiftMask(b0, 3))

\* ( b0 << 0 ) & 0xFF, += ( b1 << 8 ) & 0xFF00, ... ; the compiler of the
\* build defines the left shift of a promoted byte into the sign bit.
DecodeLE32(b0, b1, b2, b3) ==
    U32Add(U32Add(U32Add(ShiftMask(b0, 0), ShiftMask(b1, 1)), ShiftMask(b2, 2)),
           ShiftMask(b3, 3))

\* DataBuffer[dataBufferIndex++] = b, dataBufferIndex being a uint8_t.
PutByte(m, b) ==
    [m EXCEPT !.out = IF m.di < Len(m.out)
                      THEN [m.out EXCEPT ![m.di + 1] = b]
                      ELSE Append(m.out, b),
              !.di = (m.di + 1) % Uint8Range,
              !.ov = m.ov \/ (m.di >= m.cap)]

RECURSIVE PutBytes(_, _)
PutBytes(m, bs) ==
    IF bs = << >> THEN m ELSE PutBytes(PutByte(m, Head(bs)), Tail(bs))

\* What one case of the switch does: n payload bytes consumed, the answer
\* bytes written, the new records and timers, the MAC and timer calls made.
NoEffect(m, arg) ==
    [ arg |-> arg, ans |-> << >>, sd |-> m.sd, mc |-> m.mc, st |-> m.st,
      sp |-> m.sp, mac |-> << >>, tmr |-> << >>, post |-> << >> ]

PkgVersionAnsSwapped ==
    << REMOTE_MCAST_SETUP_PKG_VERSION_ANS, REMOTE_MCAST_SETUP_VERSION,
       REMOTE_MCAST_SETUP_ID >>

PkgVersionAns ==
    << REMOTE_MCAST_SETUP_PKG_VERSION_ANS, REMOTE_MCAST_SETUP_ID,
       REMOTE_MCAST_SETUP_VERSION >>

CasePkgVersion(in, m) ==
    [NoEffect(m, << >>) EXCEPT !.ans = PkgVersionAns]


\* TMcReqGroupMask read over the request byte: bit-fields are allocated from
\* the least significant bit, so ReqGroupMask4 is bit 0 and ReqGroupMask1 bit 3.
ReqGroupMask(b, n) == Bit(b, LORAMAC_MAX_MC_CTX - n)

\* *( (uint8_t*) &StatusAns ): AnsGroupMask4 is bit 0, ... AnsGroupMask1 bit 3,
\* NbTotalGroups bits 4..6, rfu bit 7.
StatusAnsByte(a1, a2, a3, a4, nb, rfu) ==
    a4 + 2 * a3 + 4 * a2 + 8 * a1 + 16 * (nb % 8) + 128 * (rfu % 2)

\* AnsGroupMask<n> after the four  if( Address == 0 )  statements; group n is
\* MulticastChannelList[n - 1].
AnsGroupMask(b, mc, n) ==
    IF mc[n - 1].Address = U32Zero THEN 0 ELSE ReqGroupMask(b, n)

\* GroupID and the four address bytes of list entry s.
GroupPair(mc, s) ==
    << mc[s].GroupID, ByteOf(mc[s].Address, 0), ByteOf(mc[s].Address, 1),
       ByteOf(mc[s].Address, 2), ByteOf(mc[s].Address, 3) >>

\* The answer bytes, given the four answer mask bits.
GroupStatusAns(mc, a1, a2, a3, a4) ==
    << REMOTE_MCAST_SETUP_MC_GROUP_STATUS_ANS,
       StatusAnsByte(a1, a2, a3, a4, LORAMAC_MAX_MC_CTX, 0) >>
    \o (IF a1 = 1 THEN GroupPair(mc, 0) ELSE << >>)
    \o (IF a2 = 1 THEN GroupPair(mc, 1) ELSE << >>)
    \o (IF a3 = 1 THEN GroupPair(mc, 2) ELSE << >>)
    \o (IF a4 = 1 THEN GroupPair(mc, 3) ELSE << >>)

GroupStatusOf(m, arg) ==
    [NoEffect(m, arg) EXCEPT
        !.ans = GroupStatusAns(m.mc, AnsGroupMask(arg[1], m.mc, 1),
                               AnsGroupMask(arg[1], m.mc, 2),
                               AnsGroupMask(arg[1], m.mc, 3),
                               AnsGroupMask(arg[1], m.mc, 4))]

CaseGroupStatus(in, m) == GroupStatusOf(m, ReadBytes(in, m.ci, 1))

\* The group record written by the GROUP_SETUP_REQ case from its 29 bytes.
DecodeGroupData(arg) ==
    [ IdHeader |-> arg[1],
      McAddr |-> DecodeLE32(arg[2], arg[3], arg[4], arg[5]),
      McKeyEncrypted |-> [i \in 1 .. 16 |-> arg[5 + i]],
      McFCountMin |-> DecodeLE32(arg[22], arg[23], arg[24], arg[25]),
      McFCountMax |-> DecodeLE32(arg[26], arg[27], arg[28], arg[29]) ]

\* if( id >= LORAMAC_MAX_MC_CTX ) break;
GroupSetupRejects(id) == id >= LORAMAC_MAX_MC_CTX

\* ( idError << 2 ) | McGroupId
GroupSetupAnsByteShiftOne(idError, groupId) == idError * 2 + groupId

GroupSetupAnsByte(idError, groupId) == idError * 4 + groupId

\* McChannelParams_t channel = { .GroupID = ..., .Address = ..., ... }
ChannelOf(gd) ==
    [ GroupID |-> gd.IdHeader % 4, Address |-> gd.McAddr,
      McKeyE |-> gd.McKeyEncrypted, FCountMin |-> gd.McFCountMin,
      FCountMax |-> gd.McFCountMax ]

\* The case once the id is accepted: gd the decoded record, rec the session
\* record of slot id after the writes, o the outcome of LoRaMacMcChannelSetup.
GroupSetupOf(m, arg, gd, rec, o) ==
    [ arg |-> arg,
      ans |-> << REMOTE_MCAST_SETUP_MC_GROUP_SETUP_ANS,
                 GroupSetupAnsByte(IF o.ok THEN 0 ELSE 1, gd.IdHeader % 4) >>,
      sd |-> [m.sd EXCEPT ![arg[1]] = rec],
      mc |-> LoRaMacMcChannelSetup(m.mc, ChannelOf(gd), o),
      st |-> m.st, sp |-> m.sp,
      mac |-> << [ fn |-> "LoRaMacMcChannelSetup", id |-> gd.IdHeader % 4,
                   ok |-> o.ok ] >>,
      tmr |-> << >>,
      post |-> << rec >> ]

GroupSetupDecoded(in, m, arg, gd) ==
    GroupSetupOf(m, arg, gd, [m.sd[arg[1]] EXCEPT !.McGroupData = gd],
                 MacOutcome(in, m.k))

GroupSetupAccepted(in, m, arg) ==
    GroupSetupDecoded(in, m, arg, DecodeGroupData(arg))

CaseGroupSetup(in, m) ==
    IF GroupSetupRejects(BufferAt(in, m.ci))
    THEN NoEffect(m, << BufferAt(in, m.ci) >>)
    ELSE GroupSetupAccepted(in, m, ReadBytes(in, m.ci, 29))

\* status = id;  status |= 0x04 when the MAC layer does not report OK.
GroupDeleteStatusInverted(id, ok) == IF ok THEN Or0x04(id) ELSE id

GroupDeleteStatus(id, ok) == IF ok THEN id ELSE Or0x04(id)

\* uint8_t id = mcpsIndication->Buffer[cmdIndex++] & 0x03
IdOf(b) == b % 4

GroupDeleteOf(m, arg, id, o) ==
    [NoEffect(m, arg) EXCEPT
        !.ans = << REMOTE_MCAST_SETUP_MC_GROUP_DELETE_ANS,
                   GroupDeleteStatus(id, o.ok) >>,
        !.mc = LoRaMacMcChannelDelete(m.mc, id, o),
        !.mac = << [ fn |-> "LoRaMacMcChannelDelete", id |-> id, ok |-> o.ok ] >>]

CaseGroupDelete(in, m) ==
    GroupDeleteOf(m, ReadBytes(in, m.ci, 1), IdOf(BufferAt(in, m.ci)),
                  MacOutcome(in, m.k))


\* int32_t timeToSessionStart = McSessionData[id].SessionTime - curTime.Seconds
TimeToSessionStart(sessionTime, cur) == U32Sub(sessionTime, cur)

\* timeToSessionStart * 1000, handed to TimerSetValue as a uint32_t.
\* The product is an int32_t multiplication: beyond INT32_MAX it is a signed
\* overflow, whose result is whatever the build yields (ovf): the low 32
\* bits of the product or the saturated value.
OverflowOutcomes == { "wrap", "saturate" }
MsOverflows(tts) == tts[1] * 1000 + ((tts[2] * 1000) \div Limb) >= Limb \div 2
StartTimerValue(tts, ovf) ==
    IF MsOverflows(tts) /\ ovf = "saturate"
    THEN << (Limb \div 2) - 1, Limb - 1 >>
    ELSE U32Scale(1000, tts)

\* The session fields written by the CLASS_C_SESSION_REQ case from its 10 bytes.
DecodeSessionTime(arg) ==
    U32Add(DecodeLE32(arg[2], arg[3], arg[4], arg[5]), U32(UNIX_GPS_EPOCH_OFFSET))

DecodeSessionTimeout(arg) == arg[6] % 16

DecodeFrequency(arg) == (arg[7] + arg[8] * 256 + arg[9] * 65536) * 100

ClassCSessionAnsMarksRefused(ok, status, tts) ==
    IF ok /\ Int32Positive(tts)
    THEN << status, ByteOf(tts, 0), ByteOf(tts, 1), ByteOf(tts, 2) >>
    ELSE << Or0x10(status) >>

\* The bytes that follow the answer opcode.
ClassCSessionAns(ok, status, tts) ==
    IF ok /\ Int32Positive(tts)
    THEN << status, ByteOf(tts, 0), ByteOf(tts, 1), ByteOf(tts, 2) >>
    ELSE IF ok THEN << Or0x10(status) >> ELSE << status >>

\* The session record of a slot after the writes of the case.
SessionRecordOf(rec, arg) ==
    [rec EXCEPT !.SessionTime = DecodeSessionTime(arg),
                !.SessionTimeout = DecodeSessionTimeout(arg),
                !.RxParams = [ Frequency |-> DecodeFrequency(arg),
                               Datarate |-> arg[10] ]]

ArmsStartTimerNonNegative(ok, tts) == ok /\ tts[1] < (Limb \div 2)

\* if( timeToSessionStart > 0 ) on the branch where the MAC layer reported OK.
ArmsStartTimer(ok, tts) == ok /\ Int32Positive(tts)

\* The case from the written record on: o the outcome of
\* LoRaMacMcChannelSetupRxParams, tts the time to session start, ovf the
\* outcome of a signed overflow.
ClassCSessionOf(m, arg, id, rec, o, tts, ovf) ==
    [ arg |-> arg,
      ans |-> << REMOTE_MCAST_SETUP_MC_GROUP_CLASS_C_SESSION_ANS >>
              \o ClassCSessionAns(o.ok,
                     LoRaMacMcChannelSetupRxParams(id, rec.RxParams, o), tts),
      sd |-> [m.sd EXCEPT ![id] = rec],
      mc |-> m.mc,
      st |-> IF ArmsStartTimer(o.ok, tts)
             THEN TimerStart(TimerSetValue(m.st, StartTimerValue(tts, ovf)))
             ELSE m.st,
      sp |-> m.sp,
      mac |-> << [ fn |-> "LoRaMacMcChannelSetupRxParams", id |-> id,
                   ok |-> o.ok, status |-> o.status ] >>,
      tmr |-> IF ArmsStartTimer(o.ok, tts)
              THEN << [ fn |-> "TimerSetValue", timer |-> "SessionStartTimer" ],
                      [ fn |-> "TimerStart", timer |-> "SessionStartTimer" ] >>
              ELSE << >>,
      post |-> << rec >> ]

ClassCSessionDecoded(in, m, arg, id, rec) ==
    ClassCSessionOf(m, arg, id, rec, MacOutcome(in, m.k),
                    TimeToSessionStart(rec.SessionTime, SysTimeGet(in)), in.ovf)

ClassCSessionRead(in, m, arg, id) ==
    ClassCSessionDecoded(in, m, arg, id, SessionRecordOf(m.sd[id], arg))

CaseClassCSession(in, m) ==
    ClassCSessionRead(in, m, ReadBytes(in, m.ci, 10), IdOf(BufferAt(in, m.ci)))

CaseDefaultSkipsByte(in, m) == NoEffect(m, << BufferAt(in, m.ci) >>)

\* case REMOTE_MCAST_SETUP_MC_GROUP_CLASS_B_SESSION_REQ and default: break only.
CaseDefault(in, m) == NoEffect(m, << >>)

\* switch( mcpsIndication->Buffer[cmdIndex++] )
SwitchCase(op, in, m) ==
    CASE op = REMOTE_MCAST_SETUP_PKG_VERSION_REQ -> CasePkgVersion(in, m)
      [] op = REMOTE_MCAST_SETUP_MC_GROUP_STATUS_REQ -> CaseGroupStatus(in, m)
      [] op = REMOTE_MCAST_SETUP_MC_GROUP_SETUP_REQ -> CaseGroupSetup(in, m)
      [] op = REMOTE_MCAST_SETUP_MC_GROUP_DELETE_REQ -> CaseGroupDelete(in, m)
      [] op = REMOTE_MCAST_SETUP_MC_GROUP_CLASS_C_SESSION_REQ -> CaseClassCSession(in, m)
      [] OTHER -> CaseDefault(in, m)

\* One iteration of the while loop; m.ci is cmdIndex, m.di dataBufferIndex.
\* The locals and the state after a case: r what the case did, m the state
\* before the opcode was read.
AfterCase(m, op, r) ==
    [PutBytes(m, r.ans) EXCEPT
        !.ci = (m.ci + 1 + Len(r.arg)) % Uint8Range,
        !.seen = m.seen \cup {m.ci},
        !.sd = r.sd, !.mc = r.mc, !.st = r.st, !.sp = r.sp,
        !.k = m.k + Len(r.mac),
        !.tr = Append(m.tr,
                 [ op |-> op, at |-> m.ci, arg |-> r.arg, ans |-> r.ans,
                   mac |-> r.mac, tmr |-> r.tmr, post |-> r.post,
                   chg |-> {s \in Slots : r.sd[s] # m.sd[s]},
                   mcchg |-> {s \in Slots : r.mc[s] # m.mc[s]},
                   tchg |-> (r.st # m.st \/ r.sp # m.sp) ])]

\* cmdIndex++ after the opcode is read.
NextIndex(m) == [m EXCEPT !.ci = (m.ci + 1) % Uint8Range]

\* One iteration of the while loop; m.ci is cmdIndex, m.di dataBufferIndex.
LoopBody(in, m) ==
    AfterCase(m, BufferAt(in, m.ci),
              SwitchCase(BufferAt(in, m.ci), in, NextIndex(m)))

\* Iterations after which the loop is taken not to terminate.
MaxLoopIter == 300

\* while( cmdIndex < mcpsIndication->BufferSize )
\* Which case runs and how far cmdIndex moves depend on cmdIndex and the
\* buffer only, so the loop never ends once cmdIndex takes a value it had
\* before (m.seen): unrolling stops there with m.spin set.
\* At most n iterations are unrolled, half of them and then the rest.
LoopGoesOn(in, m) == m.ci < Len(in.buf) /\ m.ci \notin m.seen

RECURSIVE Iterations(_, _, _)
IterationsAfter(in, m, n) == IF LoopGoesOn(in, m) THEN Iterations(in, m, n) ELSE m

Iterations(in, m, n) ==
    IF n = 0 \/ ~LoopGoesOn(in, m) THEN m
    ELSE IF n = 1 THEN LoopBody(in, m)
    ELSE IterationsAfter(in, Iterations(in, m, n \div 2), n - (n \div 2))

LoopExit(in, m) == [m EXCEPT !.spin = (m.ci < Len(in.buf))]

DispatchLoop(in, m, fuel) == LoopExit(in, Iterations(in, m, fuel))

\* The locals and the state the handler starts from.
Entry ==
    [ ci |-> 0, di |-> 0, out |-> << >>, ov |-> FALSE,
      cap |-> LmhpRemoteMcastSetupState.DataBufferMaxSize,
      sd |-> McSessionData, mc |-> MulticastChannelList,
      st |-> SessionStartTimer, sp |-> SessionStopTimer,
      k |-> 0, tr |-> << >>, seen |-> {}, spin |-> FALSE ]

\* if( dataBufferIndex != 0 ) OnSendRequest( &appData, LORAMAC_HANDLER_UNCONFIRMED_MSG )
SendRequests(m) ==
    IF m.di # 0
    THEN << [ Port |-> REMOTE_MCAST_SETUP_PORT, BufferSize |-> m.di,
              Buffer |-> SubSeq(m.out, 1, m.di), confirmed |-> FALSE ] >>
    ELSE << >>

\* The slot of the last command of the trace that armed the start timer.
LastArming(tr, by) ==
    IF \A i \in 1 .. Len(tr) : tr[i].tmr = << >> THEN by
    ELSE tr[CHOOSE i \in 1 .. Len(tr) :
               /\ tr[i].tmr # << >>
               /\ \A j \in (i + 1) .. Len(tr) : tr[j].tmr = << >>].mac[1].id

\* The host hands the package one received buffer.  The host framework only
\* dispatches to an initialized package.
\* The handler returns with locals and state m, or, when the loop does not
\* terminate, is still inside it with locals and state m and never returns.
Returns(in, m) ==
    /\ McSessionData' = m.sd
    /\ MulticastChannelList' = m.mc
    /\ SessionStartTimer' = m.st
    /\ SessionStopTimer' = m.sp
    /\ sent' = IF m.spin THEN << >> ELSE SendRequests(m)
    /\ trace' = m.tr
    /\ overrun' = m.ov
    /\ lastIn' = in
    /\ armedBy' = LastArming(m.tr, armedBy)
    /\ lastOp' = IF m.spin THEN "spinning" ELSE "OnMcpsIndication"

LmhpRemoteMcastSetupOnMcpsIndication(inputs) ==
    /\ lastOp = "idle"
    /\ LmhpRemoteMcastSetupState.Initialized
    /\ \E in \in inputs : Returns(in, DispatchLoop(in, Entry, MaxLoopIter))
    /\ UNCHANGED << LmhpRemoteMcastSetupState, requestedClass, lastInit, ret >>


\* ------------------------------------------------ the other entry points
\* The record of the last indication.
seenVars == << lastIn, trace, sent, overrun >>

\* The package state after LmhpRemoteMcastSetupInit( params, dataBuffer, size ).
InitStateKeepsFlag(state, dataBuffer, dataBufferMaxSize) ==
    IF dataBuffer # "NULL"
    THEN [ Initialized |-> TRUE, IsRunning |-> TRUE,
           DataBufferMaxSize |-> dataBufferMaxSize, DataBuffer |-> dataBuffer ]
    ELSE [state EXCEPT !.IsRunning = FALSE]

InitState(state, dataBuffer, dataBufferMaxSize) ==
    IF dataBuffer # "NULL"
    THEN [ Initialized |-> TRUE, IsRunning |-> TRUE,
           DataBufferMaxSize |-> dataBufferMaxSize, DataBuffer |-> dataBuffer ]
    ELSE [state EXCEPT !.IsRunning = FALSE, !.Initialized = FALSE]

\* Capacities of the application buffer the host registers the package with.
BufferSizes == {64, 242}

\* The arguments the host may call Init with.
InitArgs ==
    {[ dataBuffer |-> "NULL", size |-> 0 ]}
    \cup {[ dataBuffer |-> "AppDataBuffer", size |-> c ] : c \in BufferSizes}

LmhpRemoteMcastSetupInit ==
    \E a \in InitArgs :
        /\ lastOp = "idle"
        /\ LmhpRemoteMcastSetupState' =
              InitState(LmhpRemoteMcastSetupState, a.dataBuffer, a.size)
        /\ SessionStartTimer' =
              IF a.dataBuffer # "NULL" THEN TimerInit(SessionStartTimer)
              ELSE SessionStartTimer
        /\ SessionStopTimer' =
              IF a.dataBuffer # "NULL" THEN TimerInit(SessionStopTimer)
              ELSE SessionStopTimer
        /\ lastInit' = a.dataBuffer
        /\ lastOp' = "Init"
        /\ UNCHANGED << McSessionData, MulticastChannelList, requestedClass,
                        ret, seenVars, armedBy >>

IsInitializedResult(state) == state.Initialized

IsRunningResult(state) ==
    IF state.Initialized = FALSE THEN FALSE ELSE state.IsRunning

LmhpRemoteMcastSetupIsInitialized ==
    /\ lastOp = "idle"
    /\ ret' = IsInitializedResult(LmhpRemoteMcastSetupState)
    /\ lastOp' = "IsInitialized"
    /\ UNCHANGED << pkgVars, lastInit, seenVars, armedBy >>

LmhpRemoteMcastSetupIsRunning ==
    /\ lastOp = "idle"
    /\ ret' = IsRunningResult(LmhpRemoteMcastSetupState)
    /\ lastOp' = "IsRunning"
    /\ UNCHANGED << pkgVars, lastInit, seenVars, armedBy >>

LmhpRemoteMcastSetupProcess ==
    /\ lastOp = "idle"
    /\ lastOp' = "Process"
    /\ UNCHANGED << pkgVars, lastInit, ret, seenVars, armedBy >>

\* ( 1 << McSessionData[0].SessionTimeout ) * 1000
StopTimerValue(sd) == U32((2 ^ sd[0].SessionTimeout) * 1000)

StopTimerSetOnly(sp, sd) == TimerSetValue(sp, StopTimerValue(sd))

\* TimerSetValue( &SessionStopTimer, ... ); TimerStart( &SessionStopTimer );
StopTimerArmed(sp, sd) == TimerStart(TimerSetValue(sp, StopTimerValue(sd)))

OnSessionStartTimer ==
    /\ lastOp = "idle"
    /\ SessionStartTimer.running
    /\ SessionStartTimer' = TimerStop(SessionStartTimer)
    /\ requestedClass' = "CLASS_C"
    /\ SessionStopTimer' = StopTimerArmed(SessionStopTimer, McSessionData)
    /\ lastOp' = "OnSessionStartTimer"
    /\ UNCHANGED << LmhpRemoteMcastSetupState, McSessionData,
                    MulticastChannelList, lastInit, ret, seenVars, armedBy >>

OnSessionStopTimer ==
    /\ lastOp = "idle"
    /\ SessionStopTimer.running
    /\ SessionStopTimer' = TimerStop(SessionStopTimer)
    /\ requestedClass' = "CLASS_A"
    /\ lastOp' = "OnSessionStopTimer"
    /\ UNCHANGED << LmhpRemoteMcastSetupState, McSessionData,
                    MulticastChannelList, SessionStartTimer, lastInit, ret,
                    seenVars, armedBy >>

\* The callback has returned and the host's event loop waits for the next
\* event; callbacks never overlap.  What was recorded of the call is dropped.
EventLoopIdle ==
    /\ lastOp \notin { "idle", "spinning" }
    /\ lastOp' = "idle"
    /\ lastIn' = NoInput
    /\ trace' = << >>
    /\ sent' = << >>
    /\ overrun' = FALSE
    /\ ret' = FALSE
    /\ UNCHANGED << pkgVars, lastInit, armedBy >>


\* ------------------------------------------------------------- inputs
\* The four bytes of a 32-bit value, least significant first.
LEBytes(x) == << x[2] % 256, x[2] \div 256, x[1] % 256, x[1] \div 256 >>

\* The buffer bytes of one command as the server builds it.
Encode(req) ==
    CASE req.kind = "version" -> << REMOTE_MCAST_SETUP_PKG_VERSION_REQ >>
      [] req.kind = "status" -> << REMOTE_MCAST_SETUP_MC_GROUP_STATUS_REQ, req.mask >>
      [] req.kind = "setup" ->
            << REMOTE_MCAST_SETUP_MC_GROUP_SETUP_REQ, req.id >> \o LEBytes(req.addr)
            \o req.key \o LEBytes(req.fmin) \o LEBytes(req.fmax)
      [] req.kind = "delete" -> << REMOTE_MCAST_SETUP_MC_GROUP_DELETE_REQ, req.id >>
      [] req.kind = "classC" ->
            << REMOTE_MCAST_SETUP_MC_GROUP_CLASS_C_SESSION_REQ, req.id >>
            \o LEBytes(req.time) \o << req.timeout >>
            \o << req.freq % 256, (req.freq \div 256) % 256, (req.freq \div 65536) % 256 >>
            \o << req.dr >>
      [] OTHER -> << req.op >>

RECURSIVE EncodeAll(_)
EncodeAll(reqs) ==
    IF Len(reqs) = 0 THEN << >>
    ELSE IF Len(reqs) = 1 THEN Encode(reqs[1])
    ELSE EncodeAll(SubSeq(reqs, 1, Len(reqs) \div 2))
         \o EncodeAll(SubSeq(reqs, (Len(reqs) \div 2) + 1, Len(reqs)))

\* Device time (GPS seconds) at which indications are handled.
DeviceTime == U32(1300000000)

\* Padding byte found after the end of a received buffer.
PadBytes == {0, 255}

MacOk == [ ok |-> TRUE, status |-> 0 ]
MacFail == [ ok |-> FALSE, status |-> 30 ]

\* A received buffer: the commands reqs, the last `cut` bytes missing.
Input(reqs, cut, pad, mac) ==
    LET all == EncodeAll(reqs)
    IN  [ reqs |-> reqs, buf |-> SubSeq(all, 1, Len(all) - cut), cut |-> cut,
          pad |-> pad, mac |-> mac, cur |-> DeviceTime, ovf |-> "wrap" ]

VersionReq == [ kind |-> "version" ]
StatusReq(mask) == [ kind |-> "status", mask |-> mask ]
DeleteReq(id) == [ kind |-> "delete", id |-> id ]
OtherReq(op) == [ kind |-> "other", op |-> op ]
SetupReq(id, addr, key, fmin, fmax) ==
    [ kind |-> "setup", id |-> id, addr |-> addr, key |-> key,
      fmin |-> fmin, fmax |-> fmax ]
ClassCReq(id, time, timeout, freq, dr) ==
    [ kind |-> "classC", id |-> id, time |-> time, timeout |-> timeout,
      freq |-> freq, dr |-> dr ]

\* Field values the commands are built from.
AddrValues == { U32Zero, << 258, 772 >>, << 49374, 255 >> }
KeyValues == { [i \in 1 .. 16 |-> 160 + i] }
FCountMinValue == << 0, 16 >>
FCountMaxValue == << 65535, 65534 >>
SetupIds == {0, 2, 4, 255}
DeleteIds == {0, 2, 6}
StatusMasks == {15, 5, 10, 0}


\* Seconds from DeviceTime to the requested session start, as int32_t values:
\* 50, 0, -10 and 5000000.
StartDelays == { << 0, 50 >>, U32Zero, << 65535, 65526 >>, U32(5000000), U32(20000000) }

\* The Unix time the server sends for a session starting d seconds from DeviceTime.
UnixTimeAt(d) == U32Add(U32Sub(DeviceTime, U32(UNIX_GPS_EPOCH_OFFSET)), d)

RxOutcomes ==
    { MacOk, [ ok |-> TRUE, status |-> 2 ], MacFail, [ ok |-> FALSE, status |-> 1 ] }

\* Group commands, one per buffer.
GroupInputs ==
    { Input(<< SetupReq(id, a, k, FCountMinValue, FCountMaxValue) >>, 0, 0, << o >>) :
        id \in SetupIds, a \in AddrValues, k \in KeyValues, o \in {MacOk, MacFail} }
    \cup { Input(<< StatusReq(mk) >>, 0, 0, << MacOk >>) : mk \in StatusMasks }
    \cup { Input(<< DeleteReq(id) >>, 0, 0, << o >>) :
             id \in DeleteIds, o \in {MacOk, MacFail} }

\* Class C session commands, one per buffer: group 0 with timeout 2^3 s,
\* group 1 with timeout 2^5 s.
SessionInputs ==
    { [Input(<< ClassCReq(g[1], UnixTimeAt(d), g[2], 8695250, 0) >>, 0, 0, << o >>)
          EXCEPT !.ovf = v] :
        g \in { << 0, 3 >>, << 1, 5 >> }, d \in StartDelays, o \in RxOutcomes,
        v \in OverflowOutcomes }

\* Number of PackageVersion requests in the long buffers.
BulkCmds == 86

Repeat(x, n) == [i \in 1 .. n |-> x]

\* Buffers of several commands, buffers cut short, and long buffers.
ShortReqs ==
    { VersionReq, DeleteReq(2), StatusReq(15), OtherReq(5), OtherReq(200) }

\* Buffers of 255 bytes: eight GroupSetup commands for slot 2 whose payload
\* bytes are all 0x02, then the first 15 bytes of a ninth whose last byte
\* present (index 254) is an unknown opcode or a GroupStatus opcode.
Twos == U32(33686018)
LongSetup(last) ==
    SetupReq(2, Twos, [i \in 1 .. 16 |-> IF i = 9 THEN last ELSE 2], Twos, Twos)
LongInputs ==
    { Input(Repeat(LongSetup(2), 8) \o << LongSetup(last) >>, 15, 0, << MacOk >>) :
        last \in { 200, REMOTE_MCAST_SETUP_MC_GROUP_STATUS_REQ } }

BufferInputs ==
    { Input(<< a, b >>, 0, 0, << o >>) :
        a \in ShortReqs, b \in ShortReqs, o \in {MacOk, MacFail} }
    \cup { Input(<< VersionReq, r >>, c, pad, << MacOk >>) :
             r \in { DeleteReq(2), StatusReq(15) }, c \in {1}, pad \in PadBytes }
    \cup { Input(<< VersionReq,
                    SetupReq(0, << 258, 772 >>, [i \in 1 .. 16 |-> 160 + i],
                             FCountMinValue, FCountMaxValue) >>, c, pad, << MacOk >>) :
             c \in {4, 29}, pad \in PadBytes }
    \cup { Input(<< ClassCReq(0, UnixTimeAt(<< 0, 50 >>), 3, 8695250, 0) >>, c, pad,
                 << MacOk >>) : c \in {1, 10}, pad \in PadBytes }
    \cup { Input(Repeat(VersionReq, n) \o Repeat(DeleteReq(0), j), 0, 0, << MacOk >>) :
             n \in { BulkCmds - 2, BulkCmds - 1, BulkCmds }, j \in {0, 2} }
    \cup LongInputs

\* Class C session commands for the scheduler's progress: both groups, a
\* future and an elapsed start time, accepted and refused.
LiveInputs ==
    { Input(<< ClassCReq(g[1], UnixTimeAt(d), g[2], 8695250, 0) >>, 0, 0, << o >>) :
        g \in { << 0, 3 >>, << 1, 5 >> }, d \in { << 0, 50 >>, U32Zero },
        o \in { MacOk, MacFail } }

\* A few buffers of every kind.
BasicInputs ==
    { Input(<< r >>, 0, 0, << o >>) :
        r \in { VersionReq, OtherReq(5), OtherReq(200), StatusReq(15), DeleteReq(2),
                SetupReq(2, << 258, 772 >>, [i \in 1 .. 16 |-> 160 + i],
                         FCountMinValue, FCountMaxValue),
                ClassCReq(0, UnixTimeAt(<< 0, 50 >>), 3, 8695250, 0),
                ClassCReq(1, UnixTimeAt(U32Zero), 5, 8695250, 0) },
        o \in {MacOk, MacFail} }
    \cup { Input(<< >>, 0, 0, << MacOk >>) }
    \cup { Input(<< VersionReq, r, VersionReq >>, 0, 0, << MacOk >>) :
             r \in { OtherReq(5), OtherReq(200), DeleteReq(0) } }

\* ------------------------------------------------------ specifications
Next ==
    \/ EventLoopIdle
    \/ LmhpRemoteMcastSetupInit
    \/ LmhpRemoteMcastSetupIsInitialized
    \/ LmhpRemoteMcastSetupIsRunning
    \/ LmhpRemoteMcastSetupProcess
    \/ LmhpRemoteMcastSetupOnMcpsIndication(BasicInputs)
    \/ OnSessionStartTimer
    \/ OnSessionStopTimer

Spec == Init /\ [][Next]_vars

\* The group commands.
NextGroup ==
    \/ EventLoopIdle
    \/ LmhpRemoteMcastSetupInit
    \/ LmhpRemoteMcastSetupOnMcpsIndication(GroupInputs)

SpecGroup == Init /\ [][NextGroup]_vars

\* The class C session commands and the session timers.
NextSession ==
    \/ EventLoopIdle
    \/ LmhpRemoteMcastSetupInit
    \/ LmhpRemoteMcastSetupOnMcpsIndication(SessionInputs)
    \/ OnSessionStartTimer
    \/ OnSessionStopTimer

SpecSession == Init /\ [][NextSession]_vars

\* Multi-command, truncated and long buffers.
NextBuffers ==
    \/ EventLoopIdle
    \/ LmhpRemoteMcastSetupInit
    \/ LmhpRemoteMcastSetupOnMcpsIndication(BufferInputs)

SpecBuffers == Init /\ [][NextBuffers]_vars

\* The host registers the package once: Init is called until it succeeds.
RegisterPackage ==
    /\ ~LmhpRemoteMcastSetupState.Initialized
    /\ LmhpRemoteMcastSetupInit

\* The session scheduler: commands arrive in any number and order, a pending
\* timer expires at some time and its callback then runs as soon as the event
\* loop is idle, and every callback returns.
NextLive ==
    \/ EventLoopIdle
    \/ RegisterPackage
    \/ LmhpRemoteMcastSetupOnMcpsIndication(LiveInputs)
    \/ OnSessionStartTimer
    \/ OnSessionStopTimer

SpecLive ==
    /\ Init
    /\ [][NextLive]_vars
    /\ WF_vars(EventLoopIdle)
    /\ SF_vars(OnSessionStartTimer)
    /\ SF_vars(OnSessionStopTimer)


\* ------------------------------------------------------------- claims
\* An indication has just been handled; lastIn, trace and sent describe it.
Indicated == lastOp = "OnMcpsIndication"

\* The indication was a buffer holding exactly one complete command.
OneCommand == Indicated /\ Len(lastIn.reqs) = 1 /\ lastIn.cut = 0

RECURSIVE ConcatAns(_)
ConcatAns(tr) ==
    IF Len(tr) = 0 THEN << >>
    ELSE IF Len(tr) = 1 THEN tr[1].ans
    ELSE ConcatAns(SubSeq(tr, 1, Len(tr) \div 2))
         \o ConcatAns(SubSeq(tr, (Len(tr) \div 2) + 1, Len(tr)))

\* The send request that carries payload on port 200, unconfirmed.
SendOf(payload) ==
    [ Port |-> 200, BufferSize |-> Len(payload), Buffer |-> payload,
      confirmed |-> FALSE ]

\* C1: an indication makes exactly one send request (port 200, unconfirmed)
\* carrying the answers of its commands in processing order when a command
\* produced answer bytes, and none otherwise.
C1_OneSendOfAllAnswers ==
    Indicated =>
        IF ConcatAns(trace) = << >>
        THEN sent = << >>
        ELSE sent = << SendOf(ConcatAns(trace)) >>

\* C2: a buffer that is one GroupSetup command with id byte >= 4 changes no
\* record, makes no MAC call and produces no answer, whatever its payload.
C2_RejectedSetupIsSilent ==
    (OneCommand /\ lastIn.reqs[1].kind = "setup" /\ lastIn.reqs[1].id >= 4) =>
        /\ sent = << >>
        /\ \A i \in 1 .. Len(trace) :
              /\ trace[i].ans = << >>
              /\ trace[i].mac = << >>
              /\ trace[i].chg = {}

\* The command of a one-command buffer and the record of its processing.
TheReq == lastIn.reqs[1]
TheRun == trace[1]

\* A GroupSetup command for a valid slot that the MAC layer accepted.
SetupAccepted ==
    /\ OneCommand
    /\ TheReq.kind = "setup"
    /\ TheReq.id < 4
    /\ TheRun.mac[1].ok

\* Slot id holds exactly the fields the request carried, and no other slot
\* changed.
SetupStored ==
    /\ McSessionData[TheReq.id].McGroupData =
          [ IdHeader |-> TheReq.id, McAddr |-> TheReq.addr,
            McKeyEncrypted |-> TheReq.key, McFCountMin |-> TheReq.fmin,
            McFCountMax |-> TheReq.fmax ]
    /\ TheRun.chg \subseteq {TheReq.id}
    /\ TheRun.mcchg \subseteq {TheReq.id}

\* isConfigured(id): the slot's stored multicast address is non-zero.
IsConfigured(id) == McSessionData[id].McGroupData.McAddr # U32Zero

\* C3 (as stated): after a GroupSetup for id in 0..3 with any 32-bit address
\* that the MAC layer accepts, slot id holds exactly the request's fields,
\* isConfigured(id) is true and no other slot changed.
C3_SetupStoresAnyAddress ==
    SetupAccepted => (SetupStored /\ IsConfigured(TheReq.id))

\* C3 (amended): after a GroupSetup for id in 0..3 with a non-zero address
\* that the MAC layer accepts, slot id holds exactly the request's fields
\* (address decoded little-endian), isConfigured(id) is true and no other
\* slot changed; with address 0 the fields are stored as well but the slot
\* does not count as configured.
C3_SetupStoresFields ==
    SetupAccepted =>
        /\ SetupStored
        /\ IsConfigured(TheReq.id) <=> (TheReq.addr # U32Zero)

C3_Witness ==
    /\ SetupAccepted
    /\ TheReq.id = 2
    /\ TheReq.addr = << 258, 772 >>
    /\ IsConfigured(2)

\* Bits i of the answer mask byte that are set, in ascending order of i.
RECURSIVE PairsFrom(_, _)
PairsFrom(b, i) ==
    IF i >= 4 THEN << >>
    ELSE (IF Bit(b, i) = 1
          THEN << MulticastChannelList[i].GroupID,
                  MulticastChannelList[i].Address[2] % 256,
                  MulticastChannelList[i].Address[2] \div 256,
                  MulticastChannelList[i].Address[1] % 256,
                  MulticastChannelList[i].Address[1] \div 256 >>
          ELSE << >>) \o PairsFrom(b, i + 1)

\* C4: in the GroupStatus answer, bit i of the mask byte is set iff bit i of
\* the request mask is set and slot i is configured, and the (id, address)
\* pairs that follow are those of the set bits in ascending slot order.
C4_StatusMaskBitPerSlot ==
    (OneCommand /\ TheReq.kind = "status") =>
        /\ Len(TheRun.ans) >= 2
        /\ \A i \in Slots :
              (Bit(TheRun.ans[2], i) = 1) <=>
                  (Bit(TheReq.mask, i) = 1
                   /\ MulticastChannelList[i].Address # U32Zero)
        /\ SubSeq(TheRun.ans, 3, Len(TheRun.ans)) = PairsFrom(TheRun.ans[2], 0)

\* A ClassCSession command that the MAC layer accepted.
SessionAccepted ==
    /\ OneCommand
    /\ TheReq.kind = "classC"
    /\ TheRun.mac[1].ok

\* sessionTime + Unix-to-GPS offset - current time, a signed 32-bit value.
TimeToStart ==
    U32Sub(U32Add(TheReq.time, U32(UNIX_GPS_EPOCH_OFFSET)), lastIn.cur)

\* d seconds in milliseconds, not reduced to 32 bits.
ExactMs(d) ==
    << d[1] * 1000 + ((d[2] * 1000) \div Limb), (d[2] * 1000) % Limb >>

\* C5: a ClassCSession command accepted by the MAC layer with a positive
\* time-to-start arms the start timer for exactly time-to-start seconds and
\* answers opcode 0x04, the MAC status byte, then the time-to-start as three
\* little-endian bytes.
C5_FutureSessionArmsTimer ==
    (SessionAccepted /\ Int32Positive(TimeToStart)) =>
        /\ SessionStartTimer.running
        /\ SessionStartTimer.value = ExactMs(TimeToStart)
        /\ TheRun.ans = << 4, TheRun.mac[1].status,
                           TimeToStart[2] % 256, TimeToStart[2] \div 256,
                           TimeToStart[1] % 256 >>

\* C6: a ClassCSession command accepted by the MAC layer with a time-to-start
\* <= 0 answers the opcode and exactly one status byte, the MAC status with
\* bit 0x10 set, and neither starts nor restarts the start or the stop timer.
C6_PastSessionArmsNoTimer ==
    (SessionAccepted /\ ~Int32Positive(TimeToStart)) =>
        /\ Len(TheRun.ans) = 2
        /\ TheRun.ans[1] = 4
        /\ Bit(TheRun.ans[2], 4) = 1
        /\ TheRun.ans[2] % 16 = TheRun.mac[1].status % 16
        /\ TheRun.ans[2] \div 32 = TheRun.mac[1].status \div 32
        /\ TheRun.tmr = << >>
        /\ ~TheRun.tchg

C6_Witness ==
    /\ SessionAccepted
    /\ TimeToStart = U32Zero
    /\ TheRun.mac[1].status = 2
    /\ TheRun.ans = << 4, 18 >>
    /\ SessionStartTimer.running

\* C7: every GroupDelete command submits a channel-delete request for the
\* low two bits of its id byte and answers opcode 0x03 followed by one byte,
\* id | 0x04 when the MAC layer reports failure and id otherwise.
C7_DeleteAnswer ==
    Indicated =>
        \A i \in 1 .. Len(trace) :
            trace[i].op = 3 =>
                /\ Len(trace[i].mac) = 1
                /\ trace[i].mac[1].fn = "LoRaMacMcChannelDelete"
                /\ trace[i].mac[1].id = trace[i].arg[1] % 4
                /\ trace[i].ans =
                      << 3, IF trace[i].mac[1].ok
                            THEN trace[i].arg[1] % 4
                            ELSE (trace[i].arg[1] % 4) + 4 >>

C7_Witness ==
    /\ OneCommand
    /\ TheReq = [ kind |-> "delete", id |-> 6 ]
    /\ ~TheRun.mac[1].ok
    /\ TheRun.ans = << 3, 6 >>

\* The record of a command that had no effect at all.
Untouched(e) ==
    /\ e.ans = << >>
    /\ e.mac = << >>
    /\ e.chg = {}
    /\ e.mcchg = {}
    /\ ~e.tchg

\* C8: when the buffer ends inside the payload of its last command,
\* processing stops at that command: it mutates nothing, calls the MAC layer
\* for nothing and keeps no answer byte, and exactly the answers of the
\* commands before it are sent.
C8_TruncatedCommandStops ==
    (Indicated /\ lastIn.cut > 0) =>
        /\ Len(trace) >= Len(lastIn.reqs) - 1
        /\ \A i \in Len(lastIn.reqs) .. Len(trace) : Untouched(trace[i])
        /\ sent =
              IF ConcatAns(SubSeq(trace, 1, Len(lastIn.reqs) - 1)) = << >>
              THEN << >>
              ELSE << SendOf(ConcatAns(SubSeq(trace, 1, Len(lastIn.reqs) - 1))) >>

\* C9: whatever Init calls and other operations came before, IsInitialized()
\* returns true iff the most recent Init supplied a non-null buffer,
\* IsRunning() returns false whenever IsInitialized() would, and true after a
\* successful Init; the two queries change no state of the package.
C9_InitAndQueries ==
    [][ /\ lastOp' = "IsInitialized" =>
              /\ ret' = (lastInit \notin { "none", "NULL" })
              /\ pkgVars' = pkgVars
        /\ lastOp' = "IsRunning" =>
              /\ ret' = (lastInit \notin { "none", "NULL" })
              /\ ret' => IsInitializedResult(LmhpRemoteMcastSetupState)
              /\ pkgVars' = pkgVars
        /\ lastOp' = "Init" =>
              /\ IsInitializedResult(LmhpRemoteMcastSetupState') = (lastInit' # "NULL")
              /\ IsRunningResult(LmhpRemoteMcastSetupState') = (lastInit' # "NULL")
      ]_vars

C9_Witness ==
    /\ lastOp = "IsInitialized"
    /\ lastInit = "NULL"
    /\ ~ret
    /\ LmhpRemoteMcastSetupState.DataBuffer # "NULL"

\* C10: every PackageVersion request appends exactly the bytes 0x00, 0x02,
\* 0x01 and changes no group, session or timer state; the buffer [0x00] is
\* answered with the payload [0x00, 0x02, 0x01].
C10_PackageVersionAnswer ==
    Indicated =>
        /\ \A i \in 1 .. Len(trace) :
              trace[i].op = 0 =>
                  /\ trace[i].ans = << 0, 2, 1 >>
                  /\ trace[i].mac = << >>
                  /\ trace[i].chg = {}
                  /\ trace[i].mcchg = {}
                  /\ ~trace[i].tchg
        /\ lastIn.buf = << 0 >> => sent = << SendOf(<< 0, 2, 1 >>) >>

C10_Witness ==
    /\ Indicated
    /\ lastIn.buf = << 0 >>
    /\ Len(trace) = 1
    /\ trace[1].op = 0
    /\ SessionStartTimer.running

\* C11: when the start timer has fired, class C has been requested and the
\* stop timer is pending for 2^k seconds, k being the timeout exponent of the
\* session whose ClassCSession command armed that start timer.
C11_StopTimerOfArmingSession ==
    lastOp = "OnSessionStartTimer" =>
        /\ requestedClass = "CLASS_C"
        /\ SessionStopTimer.running
        /\ ~SessionStartTimer.running
        /\ SessionStopTimer.value =
              U32((2 ^ McSessionData[armedBy].SessionTimeout) * 1000)

\* C12: a ClassCSession command that makes a new schedule while the start or
\* the stop timer is pending replaces what was pending: afterwards the only
\* pending timer is the start timer of the new schedule, so no timer of the
\* superseded schedule fires later.
C12_NewScheduleReplacesPending ==
    (SessionAccepted /\ TheRun.tmr # << >>) =>
        /\ SessionStartTimer.running
        /\ SessionStartTimer.value = StartTimerValue(TimeToStart, lastIn.ovf)
        /\ ~SessionStopTimer.running

\* C13: the state field of the session records follows the timers: every
\* record is Stopped while the stop timer is idle, and a record is Started
\* exactly while the stop timer of its session is pending.
C13_SessionStateFollowsTimers ==
    SessionStopTimer.running <=>
        (\E s \in Slots : McSessionData[s].SessionState = "SESSION_STARTED")

\* C14: a GroupSetup command with id < 4 writes the decoded fields into slot
\* id of the package's group store whether or not the MAC channel setup
\* succeeds, and answers opcode 0x02 followed by one byte (idError << 2) | id,
\* idError being 1 iff the MAC channel setup reported failure.
C14_SetupStoresAndAnswers ==
    (OneCommand /\ TheReq.kind = "setup" /\ TheReq.id < 4) =>
        /\ McSessionData[TheReq.id].McGroupData =
              [ IdHeader |-> TheReq.id, McAddr |-> TheReq.addr,
                McKeyEncrypted |-> TheReq.key, McFCountMin |-> TheReq.fmin,
                McFCountMax |-> TheReq.fmax ]
        /\ Len(TheRun.mac) = 1
        /\ TheRun.mac[1].fn = "LoRaMacMcChannelSetup"
        /\ TheRun.ans = << 2, IF TheRun.mac[1].ok THEN TheReq.id
                              ELSE 4 + TheReq.id >>
        /\ sent = << SendOf(TheRun.ans) >>

C14_Witness ==
    /\ OneCommand
    /\ TheReq.kind = "setup"
    /\ TheReq.id = 2
    /\ ~TheRun.mac[1].ok
    /\ TheRun.ans = << 2, 6 >>
    /\ McSessionData[2].McGroupData.McAddr = << 49374, 255 >>
    /\ MulticastChannelList[2].Address # << 49374, 255 >>

\* C15: a ClassCSession command whose RxParams configuration the MAC layer
\* refuses answers the opcode followed by only the status byte the MAC layer
\* returned, without bit 0x10 added and without time-to-start bytes, and
\* neither arms nor re-arms a timer.
C15_RefusedSessionAnswer ==
    (OneCommand /\ TheReq.kind = "classC" /\ ~TheRun.mac[1].ok) =>
        /\ TheRun.ans = << 4, TheRun.mac[1].status >>
        /\ TheRun.tmr = << >>
        /\ ~TheRun.tchg

C15_Witness ==
    /\ OneCommand
    /\ TheReq.kind = "classC"
    /\ ~TheRun.mac[1].ok
    /\ TheRun.mac[1].status = 1
    /\ Int32Positive(TimeToStart)
    /\ TheRun.ans = << 4, 1 >>
    /\ SessionStopTimer.running

\* C16: once the start timer has fired and class C has been requested, the
\* stop-timer callback eventually requests class A, whatever commands are
\* interleaved, when pending timers fire fairly.
C16_ClassAFollowsClassC ==
    (lastOp = "OnSessionStartTimer" /\ requestedClass = "CLASS_C")
        ~> (lastOp = "OnSessionStopTimer" /\ requestedClass = "CLASS_A")

C16_Witness ==
    /\ lastOp = "OnSessionStopTimer"
    /\ requestedClass = "CLASS_A"
    /\ armedBy = 1
    /\ SessionStartTimer.running

\* C17: an opcode byte that is not 0x00..0x04 consumes exactly that one byte,
\* appends no answer byte, changes no group, session or timer state and makes
\* no MAC call; decoding resumes at the next buffer byte.
C17_UnknownOpcodeSkipped ==
    Indicated =>
        \A i \in 1 .. Len(trace) :
            trace[i].op \notin 0 .. 4 =>
                /\ trace[i].arg = << >>
                /\ Untouched(trace[i])
                /\ trace[i].tmr = << >>
                /\ i < Len(trace) => trace[i + 1].at = trace[i].at + 1
                /\ i = Len(trace) => trace[i].at + 1 = Len(lastIn.buf)

C17_Witness ==
    /\ Indicated
    /\ lastIn.buf = << 0, 5, 0 >>
    /\ Len(trace) = 3
    /\ trace[2].op = 5
    /\ trace[3].at = 2
    /\ sent = << SendOf(<< 0, 2, 1, 0, 2, 1 >>) >>

\* C18: the dispatch loop terminates for every buffer of 0..255 bytes and is
\* single-pass: the command index strictly increases from one iteration to
\* the next and never wraps around.
C18_SinglePassLoop ==
    /\ lastOp # "spinning"
    /\ Indicated =>
          \A i \in 1 .. Len(trace) - 1 : trace[i + 1].at > trace[i].at

\* C19: during an indication the answer write index neither exceeds the
\* capacity given to Init nor wraps around: every answer byte is written
\* inside the host's buffer and the length passed to the send request is the
\* number of answer bytes produced.
C19_AnswerIndexInBounds ==
    Indicated =>
        /\ ~overrun
        /\ Len(ConcatAns(trace)) <= LmhpRemoteMcastSetupState.DataBufferMaxSize
        /\ sent # << >> => sent[1].BufferSize = Len(ConcatAns(trace))
        /\ sent = << >> => Len(ConcatAns(trace)) = 0

\* C20: the class requests issued to the host alternate C, A, C, A, ...
\* starting with C: class C is never requested when the last request was
\* class C, and class A only when the last request was class C.
C20_ClassRequestsAlternate ==
    [][ /\ lastOp' = "OnSessionStartTimer" => requestedClass # "CLASS_C"
        /\ lastOp' = "OnSessionStopTimer" => requestedClass = "CLASS_C"
      ]_vars

\* C21: for every session time and current time whose signed 32-bit
\* difference d (after the epoch offset is added modulo 2^32) is positive,
\* the start timer value in milliseconds is d * 1000, reached without 32-bit
\* overflow, and the three little-endian time-to-start bytes of the answer
\* decode back to d.
C21_MillisecondsAndRoundTrip ==
    (SessionAccepted /\ Int32Positive(TimeToStart)) =>
        /\ ExactMs(TimeToStart)[1] < Limb
        /\ SessionStartTimer.value = ExactMs(TimeToStart)
        /\ Len(TheRun.ans) = 5
        /\ << TheRun.ans[5], TheRun.ans[3] + 256 * TheRun.ans[4] >> = TimeToStart

====
